---- MODULE Spec2Model ----
(***************************************************************************)
(* BOT GPT: conversation turns, context-window selection, chunk retrieval  *)
(* and document ingestion, modelled from src/src/services and              *)
(* src/src/api/routes.py.                                                  *)
(*                                                                         *)
(* Text is abstracted to what the code reads of it: its length in          *)
(* characters (count_tokens), or its characters' classes (extraction).     *)
(* Identifiers that the code draws with uuid4 are small naturals.          *)
(***************************************************************************)
EXTENDS Integers, Sequences, FiniteSets, TLC

VARIABLES
    cwH,        \* get_context_window: the history handed in (oldest first)
    cwB,        \* get_context_window: the token budget handed in
    cwOut,      \* get_context_window: the list returned
    cwPc,       \* "ready" before the call, "done" after it
    index,      \* the Chroma collection "all_documents": a set of chunks
    rqDist,     \* retrieve_relevant_chunks: cosine distance of the query to each chunk
    rqDocs,     \* retrieve_relevant_chunks: document_ids handed in
    rqTopK,     \* retrieve_relevant_chunks: top_k handed in
    retOut,     \* retrieve_relevant_chunks: the list returned
    retPc,      \* "ready" before the call, "done" after it
    cfgMaxContextTokens,  \* settings.max_context_tokens as loaded at startup
    conversations,  \* table conversations: id -> committed row
    messages,   \* table messages: the committed rows
    documents,  \* table documents: the committed rows
    users,      \* table users: the committed rows
    files,      \* the upload directory: path -> the document whose upload wrote it
    docReq,     \* the document request served last, and its response
    pending,    \* per request: rows its session has flushed and not committed
    dbLock,     \* the request whose session holds SQLite's write lock, or 0
    pc,         \* per request: where its handler stands
    req,        \* per request: the local variables of add_message_and_get_response
    response,   \* per request: the HTTP response, status 0 while there is none
    llmCalls,   \* per request: calls of self.llm.agenerate
    retrCalls,  \* per request: calls of retrieve_relevant_chunks
    userReq,    \* per create_user request: where it stands, its input and status
    delReq,     \* the delete_conversation request in flight or served last
    getReq,     \* the get_conversation request served last, and its response
    deletedConvs    \* the conversations that a delete_conversation has removed

cwVars == <<cwH, cwB, cwOut, cwPc>>
retVars == <<rqDist, rqDocs, rqTopK, retOut, retPc>>
dbVars == <<conversations, messages, pending, dbLock>>
docVars == <<index, documents, users, files, docReq>>
turnVars == <<cfgMaxContextTokens, pc, req, response, llmCalls, retrCalls>>
crudVars == <<userReq, delReq, getReq, deletedConvs>>
vars == <<cwH, cwB, cwOut, cwPc, index, rqDist, rqDocs, rqTopK, retOut, retPc,
          cfgMaxContextTokens, conversations, messages, documents, users,
          files, docReq, pending,
          dbLock, pc, req, response, llmCalls, retrCalls,
          userReq, delReq, getReq, deletedConvs>>

----------------------------------------------------------------------------
(* Bounds of the model *)

MaxLen == 4         \* longest history drawn for get_context_window
MaxTok == 3         \* largest token count of one drawn message
MaxBudget == 6      \* largest token budget drawn
MaxDocs == 2        \* document identifiers are 1..MaxDocs
RetMaxChunks == 3   \* most chunks in an index drawn for retrieve_relevant_chunks
DistSpread == 1     \* drawn distances lie this far around the threshold
MaxRequests == 2    \* turn requests are 1..MaxRequests, each served once
MaxConvs == 1       \* conversation identifiers are 1..MaxConvs
MaxChars == 4       \* longest text drawn (user message, model reply)
MaxUsers == 2       \* user identifiers are 1..MaxUsers
MaxPages == 2       \* most pages of an uploaded PDF
MaxPageChars == 1   \* longest text extracted from one page
MaxSplit == 2       \* most chunks the splitter makes of one document
MaxDocRequests == 3 \* document requests served in one run
MaxUserRequests == 3    \* create_user requests are 1..MaxUserRequests
MaxNames == 2       \* usernames and emails are 1..MaxNames
MaxDeletes == 1     \* delete_conversation requests served in one run
MaxGets == 1        \* get_conversation requests served in one run
MaxTurnBudget == 1  \* small settings of max_context_tokens are 0..MaxTurnBudget

----------------------------------------------------------------------------
(* Settings (src/config.py). Similarities and distances are in tenths. *)

max_context_tokens == 8000
top_k_chunks == 5
similarity_threshold == 7

----------------------------------------------------------------------------
(* Helpers on sequences *)

RECURSIVE Reverse(_)
Reverse(s) == IF s = <<>> THEN <<>> ELSE Reverse(Tail(s)) \o <<Head(s)>>

RECURSIVE SumTokens(_)
SumTokens(s) == IF s = <<>> THEN 0 ELSE Head(s).tokens + SumTokens(Tail(s))

IsSuffix(s, t) ==
    /\ Len(s) <= Len(t)
    /\ s = SubSeq(t, Len(t) - Len(s) + 1, Len(t))

\* A mapping without the key k.
Without(f, k) == [x \in DOMAIN f \ {k} |-> f[x]]

----------------------------------------------------------------------------
(* LLMService.get_context_window *)

\* The loop of get_context_window with `continue` in place of `break`.
RECURSIVE cw_loop_continue(_, _, _, _)
cw_loop_continue(rev, max_tokens, selected, token_count) ==
    IF rev = <<>> THEN selected
    ELSE LET msg == Head(rev) IN
         IF token_count + msg.tokens > max_tokens
         THEN cw_loop_continue(Tail(rev), max_tokens, selected, token_count)
         ELSE cw_loop_continue(Tail(rev), max_tokens, <<msg>> \o selected,
                               token_count + msg.tokens)

\* The loop of get_context_window with `>=` in place of `>`.
RECURSIVE cw_loop_ge(_, _, _, _)
cw_loop_ge(rev, max_tokens, selected, token_count) ==
    IF rev = <<>> THEN selected
    ELSE LET msg == Head(rev) IN
         IF token_count + msg.tokens >= max_tokens
         THEN selected
         ELSE cw_loop_ge(Tail(rev), max_tokens, <<msg>> \o selected,
                         token_count + msg.tokens)

\* The loop of get_context_window keeping the most recent message whatever
\* its size.
RECURSIVE cw_loop_keeps_newest(_, _, _, _)
cw_loop_keeps_newest(rev, max_tokens, selected, token_count) ==
    IF rev = <<>> THEN selected
    ELSE LET msg == Head(rev) IN
         IF token_count + msg.tokens > max_tokens /\ selected # <<>>
         THEN selected
         ELSE cw_loop_keeps_newest(Tail(rev), max_tokens, <<msg>> \o selected,
                                   token_count + msg.tokens)

\* for msg in reversed_messages: break when the running total would exceed
\* max_tokens, else selected_messages.insert(0, msg); token_count += msg.tokens
RECURSIVE cw_loop(_, _, _, _)
cw_loop(rev, max_tokens, selected, token_count) ==
    IF rev = <<>> THEN selected
    ELSE LET msg == Head(rev) IN
         IF token_count + msg.tokens > max_tokens
         THEN selected
         ELSE cw_loop(Tail(rev), max_tokens, <<msg>> \o selected,
                      token_count + msg.tokens)

get_context_window(msgs, max_tokens) ==
    cw_loop(Reverse(msgs), max_tokens, <<>>, 0)

----------------------------------------------------------------------------
(* The vector index and DocumentService.retrieve_relevant_chunks *)

DocIds == 1..MaxDocs

\* The chunk that process_document writes for chunk i of document d; its id
\* is "{document.id}_chunk_{i}".
Chunk(d, i) == [id |-> <<d, i>>, document_id |-> d, chunk_index |-> i]

\* collection.query with the where filter left out: the nearest chunks of
\* the whole collection.
collection_query_no_filter(idx, dist, n_results, where) ==
    LET n == IF Cardinality(idx) < n_results THEN Cardinality(idx)
             ELSE n_results
    IN  {[i \in 1..n |-> [chunk |-> f[i], distance |-> dist[f[i]]]] :
            f \in {g \in [1..n -> idx] :
                     /\ \A i, j \in 1..n : i < j => g[i] # g[j]
                     /\ \A i, j \in 1..n : i < j => dist[g[i]] <= dist[g[j]]
                     /\ \A c \in idx :
                          (\A i \in 1..n : g[i] # c) =>
                              \A i \in 1..n : dist[g[i]] <= dist[c]}}

\* collection.query(query_embeddings, n_results, where): the n_results
\* nearest chunks that match the filter, nearest first.  Chunks at the same
\* distance come in either order, so this is the set of possible answers,
\* each a sequence of [chunk, distance].  where = {} stands for where=None.
collection_query(idx, dist, n_results, where) ==
    LET match == IF where = {} THEN idx
                 ELSE {c \in idx : c.document_id \in where}
        n == IF Cardinality(match) < n_results THEN Cardinality(match)
             ELSE n_results
    IN  {[i \in 1..n |-> [chunk |-> f[i], distance |-> dist[f[i]]]] :
            f \in {g \in [1..n -> match] :
                     /\ \A i, j \in 1..n : i < j => g[i] # g[j]
                     /\ \A i, j \in 1..n : i < j => dist[g[i]] <= dist[g[j]]
                     /\ \A c \in match :
                          (\A i \in 1..n : g[i] # c) =>
                              \A i \in 1..n : dist[g[i]] <= dist[c]}}

\* The loop over the results with rank = i in place of rank = i + 1
\* (i counted from 0 as enumerate does).
RECURSIVE format_results_rank0(_, _)
format_results_rank0(raw, i) ==
    IF i > Len(raw) THEN <<>>
    ELSE LET similarity == 10 - raw[i].distance IN
         (IF similarity >= similarity_threshold
          THEN <<[chunk |-> raw[i].chunk,
                  similarity_score |-> similarity,
                  rank |-> i - 1]>>
          ELSE <<>>) \o format_results_rank0(raw, i + 1)

\* for i, (doc, metadata, distance) in enumerate(zip(...)): similarity =
\* 1 - distance; kept when similarity >= settings.similarity_threshold, with
\* rank = i + 1.  Here i counts from 1, so the rank is i.
RECURSIVE format_results(_, _)
format_results(raw, i) ==
    IF i > Len(raw) THEN <<>>
    ELSE LET similarity == 10 - raw[i].distance IN
         (IF similarity >= similarity_threshold
          THEN <<[chunk |-> raw[i].chunk,
                  similarity_score |-> similarity,
                  rank |-> i]>>
          ELSE <<>>) \o format_results(raw, i + 1)

\* The possible results of retrieve_relevant_chunks(query, document_ids,
\* top_k); dist stands for the query's embedding.
retrieve_relevant_chunks(idx, dist, document_ids, top_k) ==
    {format_results(raw, 1) :
        raw \in collection_query(idx, dist, top_k, document_ids)}

----------------------------------------------------------------------------
(* The parts of the state a specification leaves out stay as set here *)

CwIdle ==
    /\ cwH = <<>>
    /\ cwB = 0
    /\ cwOut = <<>>
    /\ cwPc = "off"

RetIdle ==
    /\ rqDist = <<>>
    /\ rqDocs = {}
    /\ rqTopK = 0
    /\ retOut = <<>>
    /\ retPc = "off"

Requests == 1..MaxRequests
ConvIds == 1..MaxConvs

\* The locals of add_message_and_get_response before the handler has run;
\* a local holding an object or None is a sequence of at most one element.
NoReq ==
    [conversation_id |-> 0, mode |-> "", document_ids |-> {}, total_tokens |-> 0,
     messages |-> <<>>, user_seq |-> 0, assistant_seq |-> 0, user_tokens |-> 0,
     user_message |-> <<>>, retrieved_context |-> <<>>, all_messages |-> <<>>,
     llm_in |-> <<>>, llm_result |-> "none", llm_response |-> <<>>,
     returned |-> <<>>, first_message |-> FALSE]

TurnIdle ==
    /\ pc = [r \in Requests |-> "idle"]
    /\ req = [r \in Requests |-> NoReq]
    /\ response = [r \in Requests |-> [status |-> 0, detail |-> ""]]
    /\ llmCalls = [r \in Requests |-> 0]
    /\ retrCalls = [r \in Requests |-> 0]

DbIdle ==
    /\ cfgMaxContextTokens = max_context_tokens
    /\ conversations = <<>>
    /\ messages = {}
    /\ pending = <<>>
    /\ dbLock = 0

UserIds == 1..MaxUsers
FileNames == {"a.pdf", "b.pdf", "a.txt"}

\* The names that pass file.filename.endswith('.pdf').
PdfNames == {"a.pdf", "b.pdf"}

\* User(username, email) as a row.
UserRow(u) == [id |-> u, username |-> u, email |-> u]

NoDocReq == [n |-> 0, uploads |-> 0, op |-> "none", document_id |-> 0,
             status |-> 0, pdf |-> <<>>, file_path |-> <<>>, split |-> 0]

DocsIdle ==
    /\ documents = {}
    /\ users = {}
    /\ files = <<>>
    /\ docReq = NoDocReq

UserRequests == 1..MaxUserRequests
Names == 1..MaxNames

NoUserReq == [pc |-> "idle", username |-> 0, email |-> 0, existing |-> FALSE,
              status |-> 0]

NoDelReq == [n |-> 0, pc |-> "idle", conversation_id |-> 0, loaded |-> {},
             status |-> 0]

NoGetReq == [n |-> 0, conversation_id |-> 0, status |-> 0, messages |-> <<>>,
             deleted_before |-> FALSE]

CrudIdle ==
    /\ userReq = [u \in UserRequests |-> NoUserReq]
    /\ delReq = NoDelReq
    /\ getReq = NoGetReq
    /\ deletedConvs = {}


----------------------------------------------------------------------------
(* Specification SpecRet: retrieve_relevant_chunks applied to drawn inputs *)

\* The chunks of an index in which document d has n[d] chunks.
IndexOf(n) == UNION {{Chunk(d, i) : i \in 0..(n[d] - 1)} : d \in DOMAIN n}

Indexes ==
    {IndexOf(n) : n \in {m \in [DocIds -> 0..RetMaxChunks] :
                           Cardinality(IndexOf(m)) <= RetMaxChunks}}

Distances ==
    (10 - similarity_threshold - DistSpread)..(10 - similarity_threshold + DistSpread)

\* One document of three chunks at distances 0.1, 0.5 and 0.9.
ScenarioIndex == IndexOf([d \in {1} |-> 3])
ScenarioDist == [c \in ScenarioIndex |-> 1 + 4 * c.chunk_index]

RetInit ==
    /\ CwIdle
    /\ CrudIdle
    /\ TurnIdle
    /\ DbIdle
    /\ DocsIdle
    /\ \/ /\ index \in Indexes
          /\ rqDist \in [index -> Distances]
          /\ rqDocs \in SUBSET DocIds
          /\ rqTopK \in {1, top_k_chunks}
       \/ /\ index = ScenarioIndex
          /\ rqDist = ScenarioDist
          /\ rqDocs = {1}
          /\ rqTopK = top_k_chunks
    /\ retOut = <<>>
    /\ retPc = "ready"

RetCall ==
    /\ retPc = "ready"
    /\ retOut' \in retrieve_relevant_chunks(index, rqDist, rqDocs, rqTopK)
    /\ retPc' = "done"
    /\ UNCHANGED <<rqDist, rqDocs, rqTopK, cwVars, crudVars, dbVars, turnVars, docVars>>

SpecRet == RetInit /\ [][RetCall]_vars

----------------------------------------------------------------------------
(* Specification SpecCW: get_context_window applied to drawn inputs *)

\* A history as get_messages returns it: ordered by sequence_number.
HistoryOf(toks) ==
    [i \in 1..Len(toks) |-> [sequence_number |-> i - 1, tokens |-> toks[i]]]

TokenLists == UNION {[1..n -> 0..MaxTok] : n \in 0..MaxLen}

\* Ten messages of 1000 tokens each, and the budget 3500.
CwScenario == [history |-> HistoryOf([i \in 1..10 |-> 1000]), budget |-> 3500]

CwInit ==
    /\ index = {}
    /\ CrudIdle
    /\ RetIdle
    /\ TurnIdle
    /\ DbIdle
    /\ DocsIdle
    /\ \/ /\ cwH \in {HistoryOf(t) : t \in TokenLists}
          /\ cwB \in 0..MaxBudget
       \/ /\ cwH = CwScenario.history
          /\ cwB = CwScenario.budget
    /\ cwOut = <<>>
    /\ cwPc = "ready"

CwCall ==
    /\ cwPc = "ready"
    /\ cwOut' = get_context_window(cwH, cwB)
    /\ cwPc' = "done"
    /\ UNCHANGED <<cwH, cwB, retVars, dbVars, turnVars, docVars, crudVars>>

SpecCW == CwInit /\ [][CwCall]_vars

----------------------------------------------------------------------------
(* The relational store and ConversationService *)

\* datetime.utcnow().isoformat() at the moment request r writes a row of
\* the given role: the moments of different writes are different values.
Now(r, role) == <<"at", r, role>>

\* Message(...) as a row; id stands for the uuid, created_at is the moment
\* of the write, extra_data is <<>> for the default "{}" and <<meta>> after
\* set_metadata(meta).
Message(r, c, role, tokens, seq) ==
    [id |-> <<r, role>>, conversation_id |-> c, role |-> role,
     tokens |-> tokens, sequence_number |-> seq, created_at |-> Now(r, role),
     extra_data |-> <<>>]

\* count_tokens(text), text given by its length: len(text) // 4
count_tokens(len) == len \div 4

MessagesOf(msgs, c) == {m \in msgs : m.conversation_id = c}

\* The orders in which a query with ORDER BY sequence_number can return
\* the rows S: rows with the same sequence_number come in either order.
RECURSIVE OrderedBySeq(_)
OrderedBySeq(S) ==
    IF S = {} THEN {<<>>}
    ELSE LET low == {m \in S : \A x \in S : m.sequence_number <= x.sequence_number}
         IN  UNION {{<<m>> \o t : t \in OrderedBySeq(S \ {m})} : m \in low}

\* ConversationService.get_messages: the possible result lists
get_messages(msgs, c) == OrderedBySeq(MessagesOf(msgs, c))

\* get_next_sequence_number without the + 1
get_next_sequence_number_no_inc(msgs, c) ==
    LET rows == MessagesOf(msgs, c) IN
    IF rows = {} THEN 0
    ELSE LET last_message ==
                 CHOOSE m \in rows : \A x \in rows : m.sequence_number >= x.sequence_number
         IN  last_message.sequence_number

\* ConversationService.get_next_sequence_number: the row with the highest
\* sequence_number, plus 1; 0 when the conversation has no message.
get_next_sequence_number(msgs, c) ==
    LET rows == MessagesOf(msgs, c) IN
    IF rows = {} THEN 0
    ELSE LET last_message ==
                 CHOOSE m \in rows : \A x \in rows : m.sequence_number >= x.sequence_number
         IN  last_message.sequence_number + 1

\* db.add(row); db.commit() in place of db.flush(): the row is committed at once
flush_commits(committed, pend, row) ==
    [committed |-> committed \cup pend \cup {row}, pending |-> {}]

\* db.add(row) with no db.flush(): nothing is written before the commit
flush_nothing(committed, pend, row) == [committed |-> committed, pending |-> pend]

\* db.add(row); db.flush(): the row is written inside the session's open
\* transaction; other sessions keep reading the committed rows only.
flush(committed, pend, row) ==
    [committed |-> committed, pending |-> pend \cup {row}]

\* db.commit(): the session's rows become the committed ones
commit(committed, pend) == committed \cup pend

\* db.close() writing the open transaction's rows instead of dropping them
close_commits(committed, pend) == committed \cup pend

\* get_db's db.close() with a transaction open: its rows are rolled back
close(committed, pend) == committed

\* format_rag_context(chunks): one "[Source: title]\ncontent\n" part per
\* chunk, given here by the chunks' ids; "" (<<>>) for no chunk.
format_rag_context(chunks) == [i \in 1..Len(chunks) |-> chunks[i].chunk.id]

\* generate_response choosing the documents-only prompt whenever rag_context
\* is given, be it empty.
llm_input_always_strict(msgs, rag_context, budget) ==
    [system_prompt |-> "documents_only",
     rag_context |-> rag_context,
     context_messages |-> get_context_window(msgs, budget)]

\* generate_response up to the model call: the system prompt chosen, and
\* the messages of the context window, as handed to self.llm.agenerate.
llm_input(msgs, rag_context, budget) ==
    [system_prompt |-> IF rag_context # <<>> THEN "documents_only" ELSE "default",
     rag_context |-> rag_context,
     context_messages |-> get_context_window(msgs, budget)]

\* generate_response counting the grounding text among the input tokens.
generate_response_counts_grounding(inp, len) ==
    LET input_tokens == SumTokens(inp.context_messages) + Len(inp.rag_context)
        output_tokens == count_tokens(len)
    IN  [content |-> len, input_tokens |-> input_tokens,
         output_tokens |-> output_tokens,
         total_tokens |-> input_tokens + output_tokens]

\* generate_response after the model call, lines 96-107: the dict returned
\* for a reply of length len to the input inp.
generate_response(inp, len) ==
    LET input_tokens == SumTokens(inp.context_messages)
        output_tokens == count_tokens(len)
    IN  [content |-> len, input_tokens |-> input_tokens,
         output_tokens |-> output_tokens,
         total_tokens |-> input_tokens + output_tokens]

Err500 == [status |-> 500, detail |-> "Error generating response"]

\* Lines 125-127 read for any mode: retrieval runs whenever the conversation
\* lists documents.
uses_retrieval_any_mode(mode, document_ids) == document_ids # {}

\* Lines 125-127: retrieval runs when conversation.mode == "grounded" and
\* conversation.get_document_ids() is not empty.
uses_retrieval(mode, document_ids) == mode = "grounded" /\ document_ids # {}

\* Line 136: all_messages = messages + [user_message]
all_messages(msgs, user_message) == msgs \o <<user_message>>

\* The handler's path from the user message's flush to the model call:
\* lines 110-140 of add_message_and_get_response.  q holds the locals read
\* so far.  Retrieval runs for a grounded conversation with documents; it
\* can raise (embedding or index failure), which ends the request.
\* (What becomes of table conversations is left to the caller.)
TurnSteps(r, q) ==
    LET user_message == Message(r, q.conversation_id, "user", q.user_tokens,
                                q.user_seq)
        f == flush(messages, pending[r], user_message)
        retrieves == uses_retrieval(q.mode, q.document_ids)
        q1 == [q EXCEPT !.user_message = <<user_message>>]
    IN  /\ retrCalls' = [retrCalls EXCEPT ![r] = @ + (IF retrieves THEN 1 ELSE 0)]
        /\ \/ /\ retrieves
              /\ messages' = close(f.committed, f.pending)
              /\ pending' = [pending EXCEPT ![r] = {}]
              /\ dbLock' = 0
              /\ req' = [req EXCEPT ![r] = q1]
              /\ response' = [response EXCEPT ![r] = Err500]
              /\ pc' = [pc EXCEPT ![r] = "done"]
              /\ UNCHANGED llmCalls
           \/ \E retrieved_context \in
                    (IF retrieves
                     THEN UNION {retrieve_relevant_chunks(index, d, q.document_ids,
                                                          top_k_chunks) :
                                    d \in [index -> Distances]}
                     ELSE {<<>>}) :
                /\ messages' = f.committed
                /\ pending' = [pending EXCEPT ![r] = f.pending]
                /\ dbLock' = r
                /\ req' = [req EXCEPT ![r] =
                             [q1 EXCEPT !.retrieved_context = retrieved_context,
                                        !.all_messages =
                                            all_messages(q.messages, user_message),
                                        !.llm_in = <<llm_input(
                                            all_messages(q.messages, user_message),
                                            format_rag_context(retrieved_context),
                                            cfgMaxContextTokens)>>]]
                /\ llmCalls' = [llmCalls EXCEPT ![r] = @ + 1]
                /\ pc' = [pc EXCEPT ![r] = "llm"]
                /\ UNCHANGED response
        /\ UNCHANGED <<cfgMaxContextTokens, cwVars, crudVars, retVars, docVars>>

\* Lines 110-140 within POST /conversations/{c}/messages: the table of
\* conversations is not written before the commit.
FlushAndGenerate(r, q) ==
    /\ TurnSteps(r, q)
    /\ UNCHANGED conversations

\* The conversation is added to the session and never committed
create_conversation_uncommitted(convs, c, mode, document_ids) == convs

\* Conversation(...) as a row: total_tokens defaults to 0, updated_at to
\* the moment of creation; c stands for the uuid drawn.
Conversation(c, mode, document_ids) ==
    [mode |-> mode, document_ids |-> document_ids,
     total_tokens |-> 0, updated_at |-> <<"at", c, "conversation">>]

\* ConversationService.create_conversation: the row is added and committed.
create_conversation(convs, c, mode, document_ids) ==
    [x \in DOMAIN convs \cup {c} |->
        IF x = c THEN Conversation(c, mode, document_ids) ELSE convs[x]]

\* POST /conversations without first_message: the conversation is committed with the next unused
\* id; a grounded conversation whose documents are not all on record is
\* refused (404) and leaves no trace.  The user is taken to exist.
CreateConversation(mode, document_ids) ==
    LET c == Cardinality(DOMAIN conversations \cup deletedConvs) + 1 IN
    /\ c \in ConvIds
    /\ dbLock = 0
    /\ (mode = "grounded" /\ document_ids # {})
          => document_ids \subseteq {d.id : d \in documents}
    /\ conversations' = create_conversation(conversations, c, mode, document_ids)
    /\ UNCHANGED <<messages, pending, dbLock, turnVars,
                   cwVars, crudVars, retVars, docVars>>

\* Request r arrives: requests are numbered in their order of arrival.
Arrives(r) ==
    /\ pc[r] = "idle"
    /\ \A x \in Requests : x < r => pc[x] # "idle"

\* POST /conversations with a first_message (of length len > 0), as
\* request r: after the checks of lines 58-68 the conversation is committed
\* (lines 72-77), then add_message_and_get_response runs on it up to the
\* model call (lines 80-84).  The route catches no exception, so a failure
\* of the turn is answered 500 (Internal Server Error).
CreateConversationFirstMessage(r, mode, document_ids, len) ==
    LET c == Cardinality(DOMAIN conversations \cup deletedConvs) + 1
        db_conversation == Conversation(c, mode, document_ids)
    IN  /\ Arrives(r)
        /\ c \in ConvIds
        /\ dbLock = 0
        /\ len > 0
        /\ (mode = "grounded" /\ document_ids # {})
              => document_ids \subseteq {d.id : d \in documents}
        /\ conversations' = create_conversation(conversations, c, mode, document_ids)
        /\ \E history \in get_messages(messages, c) :
              LET user_seq == get_next_sequence_number(messages, c) IN
              TurnSteps(r, [NoReq EXCEPT
                              !.conversation_id = c,
                              !.mode = db_conversation.mode,
                              !.document_ids = db_conversation.document_ids,
                              !.total_tokens = db_conversation.total_tokens,
                              !.messages = history,
                              !.user_seq = user_seq,
                              !.assistant_seq = user_seq + 1,
                              !.user_tokens = count_tokens(len),
                              !.first_message = TRUE])

\* get_conversation gives None, with the user message added before the check
TurnNotFoundAdds(r, c, len) ==
    /\ Arrives(r)
    /\ c \notin DOMAIN conversations
    /\ messages' = messages \cup
          {Message(r, c, "user", count_tokens(len), get_next_sequence_number(messages, c))}
    /\ req' = [req EXCEPT ![r] = [NoReq EXCEPT !.conversation_id = c]]
    /\ response' = [response EXCEPT ![r] =
                       [status |-> 404, detail |-> "Conversation not found"]]
    /\ pc' = [pc EXCEPT ![r] = "done"]
    /\ UNCHANGED <<conversations, pending, dbLock,
                   cfgMaxContextTokens, llmCalls, retrCalls, cwVars, crudVars, retVars, docVars>>

\* POST /conversations/{c}/messages where get_conversation gives None:
\* ValueError("Conversation not found"), which the route turns into a 404.
TurnNotFound(r, c, len) ==
    /\ Arrives(r)
    /\ c \notin DOMAIN conversations
    /\ req' = [req EXCEPT ![r] = [NoReq EXCEPT !.conversation_id = c]]
    /\ response' = [response EXCEPT ![r] =
                       [status |-> 404, detail |-> "Conversation not found"]]
    /\ pc' = [pc EXCEPT ![r] = "done"]
    /\ UNCHANGED <<dbVars, cfgMaxContextTokens, llmCalls, retrCalls,
                   cwVars, crudVars, retVars, docVars>>

\* POST /conversations/{c}/messages on a conversation on record: the
\* reads of lines 96-108, then the flush.  The reads see committed rows.
\* With the write lock free the handler runs on to the model call; with the
\* lock held by another session the INSERT waits in SQLite's busy handler.
TurnStart(r, c, len) ==
    /\ Arrives(r)
    /\ c \in DOMAIN conversations
    /\ \E history \in get_messages(messages, c) :
         LET user_seq == get_next_sequence_number(messages, c)
             q == [NoReq EXCEPT
                     !.conversation_id = c,
                     !.mode = conversations[c].mode,
                     !.document_ids = conversations[c].document_ids,
                     !.total_tokens = conversations[c].total_tokens,
                     !.messages = history,
                     !.user_seq = user_seq,
                     !.assistant_seq = user_seq + 1,
                     !.user_tokens = count_tokens(len)]
         IN  IF dbLock = 0
             THEN FlushAndGenerate(r, q)
             ELSE /\ req' = [req EXCEPT ![r] = q]
                  /\ pc' = [pc EXCEPT ![r] = "flush_wait"]
                  /\ UNCHANGED <<dbVars, cfgMaxContextTokens, response,
                                 llmCalls, retrCalls, cwVars, crudVars, retVars, docVars>>

\* The waiting INSERT goes through once the holder has committed or rolled
\* back (a holder served by another worker process); the locals read before
\* the wait are used as they are.
FlushProceed(r) ==
    /\ pc[r] = "flush_wait"
    /\ dbLock = 0
    /\ FlushAndGenerate(r, req[r])

\* The waiting INSERT gives up ("database is locked"): the request fails.
FlushTimeout(r) ==
    /\ pc[r] = "flush_wait"
    /\ dbLock # 0
    /\ response' = [response EXCEPT ![r] = Err500]
    /\ pc' = [pc EXCEPT ![r] = "done"]
    /\ UNCHANGED <<dbVars, cfgMaxContextTokens, req, llmCalls, retrCalls,
                   cwVars, crudVars, retVars, docVars>>

\* The model call raises, and the handler calls the model once more
LLMErrorRetries(r) ==
    /\ pc[r] = "llm"
    /\ llmCalls[r] <= 2
    /\ llmCalls' = [llmCalls EXCEPT ![r] = @ + 1]
    /\ req' = [req EXCEPT ![r].llm_result = "error"]
    /\ UNCHANGED <<dbVars, cfgMaxContextTokens, pc, response, retrCalls,
                   cwVars, crudVars, retVars, docVars>>

\* self.llm.agenerate raises: the exception leaves generate_response and
\* add_message_and_get_response, the route answers 500, and get_db closes
\* the session, which rolls its transaction back.
LLMError(r) ==
    /\ pc[r] = "llm"
    /\ req' = [req EXCEPT ![r].llm_result = "error"]
    /\ messages' = close(messages, pending[r])
    /\ pending' = [pending EXCEPT ![r] = {}]
    /\ dbLock' = 0
    /\ response' = [response EXCEPT ![r] = Err500]
    /\ pc' = [pc EXCEPT ![r] = "done"]
    /\ UNCHANGED <<conversations, cfgMaxContextTokens,
                   llmCalls, retrCalls, cwVars, crudVars, retVars, docVars>>

\* The assistant message with set_metadata called whatever was retrieved.
AssistantMessageAlwaysMeta(r, len) ==
    LET q == req[r]
        m == Message(r, q.conversation_id, "assistant", count_tokens(len),
                     q.assistant_seq)
    IN  [m EXCEPT !.extra_data =
            <<[rag_chunks_used |-> Len(q.retrieved_context),
               rag_similarity_scores |->
                   [i \in 1..Len(q.retrieved_context) |->
                       q.retrieved_context[i].similarity_score]]>>]

\* The assistant message of lines 143-156, given the reply's length.
AssistantMessage(r, len) ==
    LET q == req[r]
        m == Message(r, q.conversation_id, "assistant", count_tokens(len),
                     q.assistant_seq)
    IN  IF q.retrieved_context # <<>>
        THEN [m EXCEPT !.extra_data =
                 <<[rag_chunks_used |-> Len(q.retrieved_context),
                    rag_similarity_scores |->
                        [i \in 1..Len(q.retrieved_context) |->
                            q.retrieved_context[i].similarity_score]]>>]
        ELSE m

\* The dict returned with the retrieved chunks whatever the mode.
turn_result_any_mode(mode, user_message, assistant_message, conversation, chunks) ==
    [user_message |-> user_message, assistant_message |-> assistant_message,
     conversation |-> conversation,
     retrieved_context |-> <<chunks>>]

\* The dict returned by add_message_and_get_response, lines 168-173;
\* retrieved_context is <<list>> for a list and <<>> for None.
turn_result(mode, user_message, assistant_message, conversation, chunks) ==
    [user_message |-> user_message, assistant_message |-> assistant_message,
     conversation |-> conversation,
     retrieved_context |-> IF mode = "grounded" THEN <<chunks>>
                           ELSE <<>>]

\* The model replies with a text of length len: lines 142-173.  The
\* assistant message is added, the conversation row's totals are set from
\* the values the handler read, and everything is committed.  (With the
\* conversation's row deleted meanwhile the UPDATE matches no row and the
\* commit raises: CommitError.)
LLMReturn(r, len) ==
    LET q == req[r]
        c == q.conversation_id
        llm_response == generate_response(q.llm_in[1], len)
        assistant_message == AssistantMessage(r, len)
        conversation == [conversations[c] EXCEPT
                            !.total_tokens = q.total_tokens + q.user_tokens
                                                + llm_response.output_tokens,
                            !.updated_at = q.user_message[1].created_at]
    IN  /\ pc[r] = "llm"
        /\ c \in DOMAIN conversations
        /\ req' = [req EXCEPT ![r] =
                     [q EXCEPT !.llm_result = "ok",
                               !.llm_response = <<llm_response>>,
                               !.returned = <<turn_result(q.mode, q.user_message[1],
                                                          assistant_message, conversation,
                                                          q.retrieved_context)>>]]
        /\ messages' = commit(messages, pending[r] \cup {assistant_message})
        /\ conversations' = [conversations EXCEPT ![c] = conversation]
        /\ pending' = [pending EXCEPT ![r] = {}]
        /\ dbLock' = 0
        /\ response' = [response EXCEPT ![r] = [status |-> 201, detail |-> ""]]
        /\ pc' = [pc EXCEPT ![r] = "done"]
        /\ UNCHANGED <<cfgMaxContextTokens, llmCalls, retrCalls,
                       cwVars, crudVars, retVars, docVars>>

\* The model replies but db.commit() raises: nothing of the transaction is
\* kept and the route answers 500.
CommitError(r) ==
    /\ pc[r] = "llm"
    /\ req' = [req EXCEPT ![r].llm_result = "ok"]
    /\ messages' = close(messages, pending[r])
    /\ pending' = [pending EXCEPT ![r] = {}]
    /\ dbLock' = 0
    /\ response' = [response EXCEPT ![r] = Err500]
    /\ pc' = [pc EXCEPT ![r] = "done"]
    /\ UNCHANGED <<conversations, cfgMaxContextTokens,
                   llmCalls, retrCalls, cwVars, crudVars, retVars, docVars>>

----------------------------------------------------------------------------
(* Documents: upload_document, process_document, delete_document *)

\* A text is the sequence of its characters' classes: "s" for a whitespace
\* character, "x" for any other.
Strings(n) == UNION {[1..k -> {"s", "x"}] : k \in 0..n}

\* text.strip()
RECURSIVE lstrip(_)
lstrip(text) ==
    IF text # <<>> /\ Head(text) = "s" THEN lstrip(Tail(text)) ELSE text

strip(text) == Reverse(lstrip(Reverse(lstrip(text))))

\* f"\n--- Page {page_num + 1} ---\n": a newline, the rule with the page
\* number, a newline.
PageHeader == <<"s", "x", "s">>

\* The loop over pdf_reader.pages: a page whose extract_text() is empty (or
\* None) adds nothing, any other page adds its header and its text.
RECURSIVE pages_text(_)
pages_text(pages) ==
    IF pages = <<>> THEN <<>>
    ELSE (IF Head(pages) # <<>> THEN PageHeader \o Head(pages) ELSE <<>>)
         \o pages_text(Tail(pages))

\* extract_text_from_pdf: raises when the file cannot be read, and when
\* the collected text is empty after strip().
extract_text_from_pdf(pdf) ==
    IF ~pdf.readable
    THEN [ok |-> FALSE, text |-> <<>>]
    ELSE LET text == pages_text(pdf.pages) IN
         IF strip(text) = <<>>
         THEN [ok |-> FALSE, text |-> <<>>]
         ELSE [ok |-> TRUE, text |-> text]

\* process_document without the check `if not chunks`.
process_document_no_chunk_check(pdf, d, n, stored) ==
    IF extract_text_from_pdf(pdf).ok /\ stored
    THEN [ok |-> TRUE, chunks |-> {Chunk(d, i) : i \in 0..(n - 1)}, count |-> n]
    ELSE [ok |-> FALSE, chunks |-> {}, count |-> 0]

\* process_document with the ids "chunk_{i}", the document's id left out.
process_document_ids_by_index(pdf, d, n, stored) ==
    IF extract_text_from_pdf(pdf).ok /\ n > 0 /\ stored
    THEN [ok |-> TRUE,
          chunks |-> {[Chunk(d, i) EXCEPT !.id = <<0, i>>] : i \in 0..(n - 1)},
          count |-> n]
    ELSE [ok |-> FALSE, chunks |-> {}, count |-> 0]

\* process_document(file_path, document): n is the number of chunks the
\* splitter makes of the text, stored tells whether embedding and
\* collection.add go through.  The result: whether it returned, the chunks
\* it wrote, and the count it returned.
process_document(pdf, d, n, stored) ==
    IF extract_text_from_pdf(pdf).ok /\ n > 0 /\ stored
    THEN [ok |-> TRUE, chunks |-> {Chunk(d, i) : i \in 0..(n - 1)}, count |-> n]
    ELSE [ok |-> FALSE, chunks |-> {}, count |-> 0]

\* os.path.join(settings.upload_dir, f"{user_id}_{file.filename}")
FilePath(user_id, filename) == <<user_id, filename>>

\* Document(...) as a row; chunk_count is 0 until it is set.
Document(d, user_id, filename) ==
    [id |-> d, user_id |-> user_id, filename |-> filename,
     file_path |-> FilePath(user_id, filename), chunk_count |-> 0]

\* A mapping with the key k set to v.
With(f, k, v) == [x \in DOMAIN f \cup {k} |-> IF x = k THEN v ELSE f[x]]

\* The record of a document request: which it was in the run (n), the
\* document ids drawn so far, the request and the status of its response;
\* split is the number of chunks the splitter made of an upload's text.
DocResponse(op, d, status, pdf, file_path) ==
    [n |-> docReq.n + 1, uploads |-> docReq.uploads, op |-> op,
     document_id |-> d, status |-> status, pdf |-> pdf, file_path |-> file_path,
     split |-> 0]

\* POST /documents for an unknown user (404), a file that is not a .pdf
\* (400) or one above max_file_size (400): nothing is saved.
UploadRefused(user_id, filename, too_large) ==
    /\ docReq.n < MaxDocRequests
    /\ \/ user_id \notin {u.id : u \in users}
       \/ filename \notin PdfNames
       \/ too_large
    /\ docReq' = DocResponse("upload", 0,
                             IF user_id \notin {u.id : u \in users} THEN 404 ELSE 400,
                             <<>>, <<>>)
    /\ UNCHANGED <<index, documents, users, files, dbVars, turnVars, cwVars, crudVars, retVars>>

\* POST /documents, lines 193-223: the file is saved under the user's id
\* and the file's name, the document row is flushed (which draws its id),
\* and process_document runs.  When it returns, chunk_count is set and the
\* row committed; when anything raises, the row is rolled back, the file
\* at file_path is removed and the response is 500.
UploadDocument(user_id, filename, pdf, n, stored) ==
    LET d == docReq.uploads + 1
        document == Document(d, user_id, filename)
        saved == With(files, document.file_path, d)
        p == process_document(pdf, d, n, stored)
    IN  /\ docReq.n < MaxDocRequests
        /\ d \in DocIds
        /\ user_id \in {u.id : u \in users}
        /\ filename \in PdfNames
        /\ dbLock = 0
        /\ IF p.ok
           THEN /\ index' = index \cup p.chunks
                /\ documents' = documents \cup {[document EXCEPT !.chunk_count = p.count]}
                /\ files' = saved
                /\ docReq' = [DocResponse("upload", d, 201, <<pdf>>, document.file_path)
                                 EXCEPT !.uploads = d, !.split = n]
           ELSE /\ index' = index
                /\ documents' = documents
                /\ files' = Without(saved, document.file_path)
                /\ docReq' = [DocResponse("upload", d, 500, <<pdf>>, document.file_path)
                                 EXCEPT !.uploads = d, !.split = n]
        /\ UNCHANGED <<users, dbVars, turnVars, cwVars, crudVars, retVars>>

\* delete_document_chunks(d): collection.get(where document_id = d), then
\* collection.delete(ids); an exception of either is printed and dropped.
delete_document_chunks(idx, d, chroma_ok) ==
    IF chroma_ok THEN {c \in idx : c.document_id # d} ELSE idx

\* DELETE /documents/{d} for a document that is not on record: 404.
DeleteDocumentNotFound(d) ==
    /\ docReq.n < MaxDocRequests
    /\ d \notin {x.id : x \in documents}
    /\ docReq' = DocResponse("delete", d, 404, <<>>, <<>>)
    /\ UNCHANGED <<index, documents, users, files, dbVars, turnVars, cwVars, crudVars, retVars>>

\* DELETE /documents/{d}, lines 263-279: the file at the row's file_path is
\* removed if it exists, the document's chunks are deleted from the index,
\* the row is deleted and committed, and the response is 200.
DeleteDocument(d, chroma_ok) ==
    /\ docReq.n < MaxDocRequests
    /\ d \in {x.id : x \in documents}
    /\ dbLock = 0
    /\ LET document == CHOOSE x \in documents : x.id = d IN
         /\ files' = IF document.file_path \in DOMAIN files
                     THEN Without(files, document.file_path) ELSE files
         /\ index' = delete_document_chunks(index, d, chroma_ok)
         /\ documents' = documents \ {document}
    /\ docReq' = DocResponse("delete", d, 200, <<>>, <<>>)
    /\ UNCHANGED <<users, dbVars, turnVars, cwVars, crudVars, retVars>>

----------------------------------------------------------------------------
(* Specification SpecDocs: uploads and deletions of documents *)

Pdfs ==
    {[readable |-> b, pages |-> p] :
        b \in BOOLEAN,
        p \in UNION {[1..k -> Strings(MaxPageChars)] : k \in 0..MaxPages}}

DocsInit ==
    /\ CwIdle
    /\ CrudIdle
    /\ RetIdle
    /\ TurnIdle
    /\ DbIdle
    /\ index = {}
    /\ documents = {}
    /\ users = {UserRow(1)}
    /\ files = <<>>
    /\ docReq = NoDocReq

DocsNext ==
    \/ \E user_id \in UserIds, filename \in FileNames, too_large \in BOOLEAN :
          UploadRefused(user_id, filename, too_large)
    \/ \E user_id \in UserIds, filename \in FileNames, pdf \in Pdfs,
          n \in 0..MaxSplit, stored \in BOOLEAN :
          UploadDocument(user_id, filename, pdf, n, stored)
    \/ \E d \in DocIds : DeleteDocumentNotFound(d)
    \/ \E d \in DocIds, chroma_ok \in BOOLEAN : DeleteDocument(d, chroma_ok)

SpecDocs == DocsInit /\ [][DocsNext]_vars

----------------------------------------------------------------------------
(* Conversations: get_conversation and delete_conversation *)

\* GET /conversations/{c}, lines 125-139: 404 for a conversation that is
\* not on record, else the conversation with its messages.
GetConversation(c) ==
    /\ getReq.n < MaxGets
    /\ \E history \in (IF c \in DOMAIN conversations
                        THEN get_messages(messages, c) ELSE {<<>>}) :
          getReq' = [n |-> getReq.n + 1, conversation_id |-> c,
                     status |-> IF c \in DOMAIN conversations THEN 200 ELSE 404,
                     messages |-> history,
                     deleted_before |-> c \in deletedConvs]
    /\ UNCHANGED <<userReq, delReq, deletedConvs, dbVars, turnVars, docVars,
                   cwVars, retVars>>

\* db.delete(conversation); db.commit() with cascade="all, delete-orphan"
\* on Conversation.messages: the message rows that the session loaded of
\* the relationship are deleted one by one, then the conversation's row.
\* (SQLite is opened without PRAGMA foreign_keys, so ondelete="CASCADE"
\* deletes nothing by itself.)
delete_cascade(c, loaded) ==
    /\ messages' = {m \in messages : m.id \notin loaded}
    /\ conversations' = Without(conversations, c)
    /\ deletedConvs' = deletedConvs \cup {c}

\* DELETE /conversations/{c}: 404 for a conversation that is not on
\* record.  Else the conversation and its committed messages are loaded and
\* deleted; with the write lock held by a turn's session the DELETE waits
\* in SQLite's busy handler (the handler runs in a worker thread).
DeleteConversation(c) ==
    /\ delReq.pc # "wait"
    /\ delReq.n < MaxDeletes
    /\ LET loaded == {m.id : m \in MessagesOf(messages, c)}
           served == [n |-> delReq.n + 1, pc |-> "done", conversation_id |-> c,
                      loaded |-> {}, status |-> 0]
       IN  IF c \notin DOMAIN conversations
           THEN /\ delReq' = [served EXCEPT !.status = 404]
                /\ UNCHANGED <<conversations, messages, deletedConvs>>
           ELSE IF dbLock = 0
           THEN /\ delete_cascade(c, loaded)
                /\ delReq' = [served EXCEPT !.status = 200, !.loaded = loaded]
           ELSE /\ delReq' = [served EXCEPT !.pc = "wait", !.loaded = loaded]
                /\ UNCHANGED <<conversations, messages, deletedConvs>>
    /\ UNCHANGED <<userReq, getReq, pending, dbLock, turnVars, docVars,
                   cwVars, retVars>>

\* The waiting DELETE goes through once the turn has committed or rolled
\* back: the rows loaded before the wait are deleted.
DeleteProceed ==
    /\ delReq.pc = "wait"
    /\ dbLock = 0
    /\ delete_cascade(delReq.conversation_id, delReq.loaded)
    /\ delReq' = [delReq EXCEPT !.pc = "done", !.status = 200]
    /\ UNCHANGED <<userReq, getReq, pending, dbLock, turnVars, docVars,
                   cwVars, retVars>>

\* The waiting DELETE gives up ("database is locked"): the response is 500.
DeleteTimeout ==
    /\ delReq.pc = "wait"
    /\ dbLock # 0
    /\ delReq' = [delReq EXCEPT !.pc = "done", !.status = 500]
    /\ UNCHANGED <<userReq, getReq, deletedConvs, dbVars, turnVars, docVars,
                   cwVars, retVars>>

----------------------------------------------------------------------------
(* Users: create_user *)

\* User(username, email) as a row; id stands for the uuid.
User(id, username, email) == [id |-> id, username |-> username, email |-> email]

\* The filter of create_user with the email compared only.
existing_user_by_email(rows, username, email) == {x \in rows : x.email = email}

\* db.query(User).filter((User.email == email) | (User.username == username)):
\* the rows that match; .first() is None when there is none.
existing_user(rows, username, email) ==
    {x \in rows : x.email = email \/ x.username = username}

\* The INSERT of a user breaks unique=True of users.username or users.email.
unique_violation(rows, username, email) ==
    \E x \in rows : x.username = username \/ x.email = email

\* POST /users, lines 26-35: the handler runs in a worker thread.  With a
\* user on record under the email or the username the response is 400;
\* otherwise the new row is added to the session.
CreateUser(u, username, email) ==
    /\ userReq[u].pc = "idle"
    /\ \A x \in UserRequests : x < u => userReq[x].pc # "idle"
    /\ LET existing == existing_user(users, username, email) # {} IN
       userReq' = [userReq EXCEPT ![u] =
                     [pc |-> IF existing THEN "done" ELSE "commit",
                      username |-> username, email |-> email,
                      existing |-> existing,
                      status |-> IF existing THEN 400 ELSE 0]]
    /\ UNCHANGED <<users, index, documents, files, docReq, delReq, getReq,
                   deletedConvs, dbVars, turnVars, cwVars, retVars>>

\* POST /users, line 36: db.commit() writes the row.  A row committed by
\* another request since the check breaks the unique constraint: the
\* IntegrityError is not caught and the response is 500.
CreateUserCommit(u) ==
    /\ userReq[u].pc = "commit"
    /\ dbLock = 0
    /\ LET q == userReq[u]
           refused == unique_violation(users, q.username, q.email)
       IN  /\ users' = IF refused THEN users
                       ELSE users \cup {User(u, q.username, q.email)}
           /\ userReq' = [userReq EXCEPT ![u] =
                            [q EXCEPT !.pc = "done",
                                      !.status = IF refused THEN 500 ELSE 201]]
    /\ UNCHANGED <<index, documents, files, docReq, delReq, getReq,
                   deletedConvs, dbVars, turnVars, cwVars, retVars>>

----------------------------------------------------------------------------
(* Specification SpecUsers: create_user requests, overlapping *)

UsersInit ==
    /\ CwIdle
    /\ RetIdle
    /\ TurnIdle
    /\ DbIdle
    /\ DocsIdle
    /\ CrudIdle
    /\ index = {}

UsersNext ==
    \/ \E u \in UserRequests, username \in Names, email \in Names :
          CreateUser(u, username, email)
    \/ \E u \in UserRequests : CreateUserCommit(u)

SpecUsers == UsersInit /\ [][UsersNext]_vars

----------------------------------------------------------------------------
(* Specification Spec: conversations and turns, requests overlapping *)

Modes == {"open_chat", "grounded"}

\* Document d as the upload of a one-chunk PDF by user 1 leaves it.
DocumentRow(d) ==
    [Document(d, 1, IF d = 1 THEN "a.pdf" ELSE "b.pdf") EXCEPT !.chunk_count = 1]

\* One registered user, whose uploads have put one-chunk documents on
\* record; no conversation yet.
Startup ==
    /\ CwIdle
    /\ CrudIdle
    /\ RetIdle
    /\ TurnIdle
    /\ users = {UserRow(1)}
    /\ documents = {DocumentRow(d) : d \in DocIds}
    /\ index = IndexOf([d \in DocIds |-> 1])
    /\ files = [p \in {DocumentRow(d).file_path : d \in DocIds} |->
                  (CHOOSE d \in DocIds : DocumentRow(d).file_path = p)]
    /\ docReq = [NoDocReq EXCEPT !.uploads = MaxDocs]
    /\ conversations = <<>>
    /\ messages = {}
    /\ pending = [r \in Requests |-> {}]
    /\ dbLock = 0

Init ==
    /\ Startup
    /\ cfgMaxContextTokens = max_context_tokens

Next ==
    \/ \E mode \in Modes, document_ids \in SUBSET DocIds :
          CreateConversation(mode, document_ids)
    \/ \E r \in Requests, c \in ConvIds, len \in 0..MaxChars : TurnNotFound(r, c, len)
    \/ \E r \in Requests, c \in ConvIds, len \in 0..MaxChars : TurnStart(r, c, len)
    \/ \E r \in Requests : FlushProceed(r)
    \/ \E r \in Requests : FlushTimeout(r)
    \/ \E r \in Requests : LLMError(r)
    \/ \E r \in Requests, len \in 0..MaxChars : LLMReturn(r, len)
    \/ \E r \in Requests : CommitError(r)

Spec == Init /\ [][Next]_vars

----------------------------------------------------------------------------
(* Specification SpecConv: turns, with conversations read and deleted *)

ConvNext ==
    \/ Next
    \/ \E c \in ConvIds : GetConversation(c)
    \/ \E c \in ConvIds : DeleteConversation(c)
    \/ DeleteProceed
    \/ DeleteTimeout

SpecConv == Init /\ [][ConvNext]_vars

----------------------------------------------------------------------------
(* Specification SpecCreate: conversations created with a first message,   *)
(* and turns on them                                                       *)

CreateNext ==
    \/ Next
    \/ \E r \in Requests, mode \in Modes, document_ids \in SUBSET DocIds,
          len \in 1..MaxChars :
          CreateConversationFirstMessage(r, mode, document_ids, len)

SpecCreate == Init /\ [][CreateNext]_vars

----------------------------------------------------------------------------
(* Specification SpecDocTurns: turns, with documents deleted meanwhile *)

DocTurnsNext ==
    \/ Next
    \/ \E d \in DocIds : DeleteDocumentNotFound(d)
    \/ \E d \in DocIds, chroma_ok \in BOOLEAN : DeleteDocument(d, chroma_ok)

SpecDocTurns == Init /\ [][DocTurnsNext]_vars

----------------------------------------------------------------------------
(* Specification SpecSeq: the turns served one at a time *)

\* No add_message handler is under way.
OneAtATime == \A r \in Requests : pc[r] \in {"idle", "done"}

\* A turn is taken up only when the turn before it has been answered.
SeqNext ==
    \/ \E mode \in Modes, document_ids \in SUBSET DocIds :
          CreateConversation(mode, document_ids)
    \/ \E r \in Requests, c \in ConvIds, len \in 0..MaxChars :
          OneAtATime /\ TurnNotFound(r, c, len)
    \/ \E r \in Requests, c \in ConvIds, len \in 0..MaxChars :
          OneAtATime /\ TurnStart(r, c, len)
    \/ \E r \in Requests : LLMError(r)
    \/ \E r \in Requests, len \in 0..MaxChars : LLMReturn(r, len)
    \/ \E r \in Requests : CommitError(r)

SpecSeq == Init /\ [][SeqNext]_vars

----------------------------------------------------------------------------
(* Specification SpecBudget: the same turns under a small                  *)
(* MAX_CONTEXT_TOKENS, so that messages fall out of the context window     *)

BudgetInit ==
    /\ Startup
    /\ cfgMaxContextTokens \in 0..MaxTurnBudget

SpecBudget == BudgetInit /\ [][Next]_vars

----------------------------------------------------------------------------
(* C1: the result of get_context_window is a contiguous suffix of the      *)
(* history, in the history's order, and its tokens sum to at most the      *)
(* budget.                                                                 *)
C1_SuffixWithinBudget ==
    cwPc = "done" => /\ IsSuffix(cwOut, cwH)
                     /\ SumTokens(cwOut) <= cwB

\* A call that kept some messages and dropped some.
C1_Witness ==
    /\ cwPc = "done"
    /\ Len(cwOut) >= 2
    /\ Len(cwOut) < Len(cwH)

(* C2: the result is the longest suffix that fits: it is the whole history, *)
(* or the message just older than the first one returned would push the    *)
(* total above the budget; ten messages of 1000 tokens under a budget of   *)
(* 3500 give exactly the last three.                                       *)
C2_LongestSuffix ==
    cwPc = "done" =>
        /\ \/ Len(cwOut) = Len(cwH)
           \/ /\ Len(cwOut) < Len(cwH)
              /\ SumTokens(cwOut) + cwH[Len(cwH) - Len(cwOut)].tokens > cwB
        /\ (cwH = CwScenario.history /\ cwB = CwScenario.budget)
              => cwOut = SubSeq(CwScenario.history, 8, 10)

\* The scenario's call has returned three messages.
C2_Witness ==
    /\ cwPc = "done"
    /\ cwH = CwScenario.history
    /\ cwB = CwScenario.budget
    /\ Len(cwOut) = 3

(* C5 as amended: every chunk returned by retrieve_relevant_chunks has a   *)
(* similarity at or above the threshold, the similarities never increase   *)
(* along the returned list (chunks at the same distance score the same),   *)
(* and the ranks are exactly 1..N; distances 0.1, 0.5, 0.9 under the       *)
(* threshold 0.7 give one chunk, of rank 1.                                *)
C5_FilteredRanked ==
    retPc = "done" =>
        /\ \A i \in 1..Len(retOut) :
              /\ retOut[i].similarity_score >= similarity_threshold
              /\ retOut[i].rank = i
        /\ \A i, j \in 1..Len(retOut) :
              i < j => retOut[i].similarity_score >= retOut[j].similarity_score
        /\ (index = ScenarioIndex /\ rqDist = ScenarioDist /\ rqDocs = {1})
              => /\ Len(retOut) = 1
                 /\ retOut[1].rank = 1
                 /\ retOut[1].similarity_score = 9

\* A call that returned several chunks and dropped at least one.
C5_Witness ==
    /\ retPc = "done"
    /\ Len(retOut) >= 2
    /\ \E c \in index : /\ (rqDocs = {} \/ c.document_id \in rqDocs)
                        /\ 10 - rqDist[c] < similarity_threshold

(* C5 as claimed: every chunk returned has a similarity at or above the    *)
(* threshold, the returned list is strictly similarity-descending, and the *)
(* ranks are exactly 1..N.                                                 *)
C5_StrictlyDescending ==
    retPc = "done" =>
        /\ \A i \in 1..Len(retOut) :
              /\ retOut[i].similarity_score >= similarity_threshold
              /\ retOut[i].rank = i
        /\ \A i, j \in 1..Len(retOut) :
              i < j => retOut[i].similarity_score > retOut[j].similarity_score

(* C3: under any interleaving of turns on one conversation, no two         *)
(* persisted messages of that conversation share a sequence_number.        *)
C3_NoDuplicateSequenceNumbers ==
    \A m1, m2 \in messages :
        (m1.conversation_id = m2.conversation_id
            /\ m1.sequence_number = m2.sequence_number) => m1 = m2

\* The ids of the committed rows of table messages.
CommittedIds == {m.id : m \in messages}

\* Request r got past the flush of its user message and then failed.
FailedAfterFlush(r) ==
    /\ pc[r] = "done"
    /\ response[r].status = 500
    /\ req[r].user_message # <<>>

(* C4: a turn that fails after its user message was written leaves no      *)
(* committed user message without its assistant message: the store holds   *)
(* both messages of a turn or neither, a failed turn leaves neither, and   *)
(* the caller of a failed turn gets an error response.                     *)
C4_TurnIsAtomic ==
    \A r \in Requests :
        /\ (<<r, "user">> \in CommittedIds) <=> (<<r, "assistant">> \in CommittedIds)
        /\ FailedAfterFlush(r) =>
              /\ <<r, "user">> \notin CommittedIds
              /\ <<r, "assistant">> \notin CommittedIds
              /\ pending[r] = {}
        /\ (pc[r] = "done" /\ <<r, "user">> \notin CommittedIds)
              => response[r].status \in {404, 500}

\* A turn has failed in generation, after its user message was flushed, while
\* another turn of the same conversation is committed.
C4_Witness ==
    \E r, x \in Requests :
        /\ FailedAfterFlush(r)
        /\ req[r].llm_result = "error"
        /\ response[x].status = 201
        /\ req[x].conversation_id = req[r].conversation_id

(* C6: a turn on a conversation id that is not on record is answered 404   *)
(* "Conversation not found" and changes nothing: no message is added, no   *)
(* conversation row changes, nothing is flushed, and neither retrieval nor *)
(* the model is called.                                                    *)
C6_NotFoundCreatesNothing ==
    [][\A r \in Requests :
          (pc[r] = "idle" /\ pc'[r] # "idle"
              /\ req'[r].conversation_id \notin DOMAIN conversations)
          => /\ response'[r] = [status |-> 404, detail |-> "Conversation not found"]
             /\ pc'[r] = "done"
             /\ messages' = messages
             /\ conversations' = conversations
             /\ pending' = pending
             /\ llmCalls'[r] = 0
             /\ retrCalls'[r] = 0]_vars

\* A turn has been answered 404 and a later turn has been served.
C6_Witness ==
    \E r, x \in Requests :
        /\ response[r].status = 404
        /\ response[x].status = 201

\* The highest sequence_number among the rows of a list.
RECURSIVE MaxSeq(_)
MaxSeq(s) ==
    IF Len(s) = 1 THEN s[1].sequence_number
    ELSE LET rest == MaxSeq(Tail(s)) IN
         IF s[1].sequence_number > rest THEN s[1].sequence_number ELSE rest

\* The committed row with the given id.
Row(id) == CHOOSE m \in messages : m.id = id

(* C7: in every successful turn the user message is persisted with the     *)
(* sequence number one above the highest among the messages the            *)
(* conversation had when the turn read them (0 when it had none), and the  *)
(* assistant message with the user's number plus 1; on an empty            *)
(* conversation the user gets 0 and the assistant 1.                       *)
C7_SequenceNumbersAssigned ==
    \A r \in Requests :
        response[r].status = 201 =>
            LET expected == IF req[r].messages = <<>> THEN 0
                            ELSE MaxSeq(req[r].messages) + 1
            IN  /\ <<r, "user">> \in CommittedIds
                /\ <<r, "assistant">> \in CommittedIds
                /\ Row(<<r, "user">>).sequence_number = expected
                /\ Row(<<r, "assistant">>).sequence_number = expected + 1
                /\ Row(<<r, "user">>).role = "user"
                /\ Row(<<r, "assistant">>).role = "assistant"

\* A turn on a conversation that already held a committed turn has succeeded.
C7_Witness ==
    \E r \in Requests :
        /\ response[r].status = 201
        /\ Len(req[r].messages) = 2
        /\ Row(<<r, "user">>).sequence_number = 2
        /\ Row(<<r, "assistant">>).sequence_number = 3

(* C10: the model is called at most once per turn; a failed model call is  *)
(* not retried and ends the turn with a server error and no assistant      *)
(* message persisted.                                                      *)
C10_NoRetryOnModelFailure ==
    \A r \in Requests :
        /\ llmCalls[r] <= 1
        /\ req[r].llm_result = "error" =>
              /\ pc[r] = "done"
              /\ response[r].status = 500
              /\ <<r, "assistant">> \notin CommittedIds
              /\ <<r, "user">> \notin CommittedIds

\* A model call has failed.
C10_Witness ==
    \E r \in Requests :
        /\ req[r].llm_result = "error"
        /\ llmCalls[r] = 1

(* C8: once delete_document for document d has completed, the index holds  *)
(* no chunk of d, and every chunk of any other document is still there,    *)
(* unchanged.                                                              *)
C8_DeleteRemovesExactlyTheDocumentsChunks ==
    [][(docReq'.n = docReq.n + 1 /\ docReq'.op = "delete" /\ docReq'.status = 200)
       => LET d == docReq'.document_id IN
          /\ \A c \in index' : c.document_id # d
          /\ {c \in index' : c.document_id # d} = {c \in index : c.document_id # d}]_vars

\* The extraction of a PDF yields no usable text: no page's text holds a
\* character that is not whitespace.
NoUsableText(pdf) ==
    \A i \in 1..Len(pdf.pages) :
        \A j \in 1..Len(pdf.pages[i]) : pdf.pages[i][j] # "x"

(* C9: the upload of a document whose extraction yields no usable text      *)
(* fails: the response is a server error, no chunk is written to the       *)
(* index, no document row is persisted, and the saved file is removed.     *)
C9_NoUsableTextFailsIngestion ==
    [][(docReq'.n = docReq.n + 1 /\ docReq'.op = "upload" /\ docReq'.pdf # <<>>
           /\ NoUsableText(docReq'.pdf[1]))
       => /\ docReq'.status = 500
          /\ index' = index
          /\ documents' = documents
          /\ docReq'.file_path \notin DOMAIN files']_vars

C12_RetrievalOnlyWhenGroundedWithDocuments ==
    \A r \in Requests :
        LET q == req[r]
            applies == /\ q.conversation_id \in DOMAIN conversations
                       /\ conversations[q.conversation_id].mode = "grounded"
                       /\ conversations[q.conversation_id].document_ids # {}
        IN  /\ retrCalls[r] <= 1
            /\ q.user_message = <<>> => retrCalls[r] = 0
            /\ q.user_message # <<>> => (retrCalls[r] = 1 <=> applies)
            /\ (q.llm_in # <<>> /\ ~applies)
                  => /\ q.llm_in[1].rag_context = <<>>
                     /\ q.llm_in[1].system_prompt = "default"

\* A turn on an open_chat conversation created with document ids succeeded.
C12_Witness ==
    \E r \in Requests :
        /\ response[r].status = 201
        /\ req[r].mode = "open_chat"
        /\ req[r].document_ids # {}
        /\ retrCalls[r] = 0

(* C16: the assistant message of a successful turn carries metadata exactly *)
(* when the conversation is grounded and retrieval returned at least one   *)
(* chunk: rag_chunks_used is the number of chunks returned and             *)
(* rag_similarity_scores lists their similarity scores in rank order; in   *)
(* every other turn the metadata is the empty default.                     *)
C16_AssistantMetadata ==
    \A r \in Requests :
        response[r].status = 201 =>
            LET q == req[r]
                meta == Row(<<r, "assistant">>).extra_data
                chunks == q.retrieved_context
            IN  IF q.mode = "grounded" /\ retrCalls[r] = 1 /\ Len(chunks) >= 1
                THEN /\ Len(meta) = 1
                     /\ meta[1].rag_chunks_used = Len(chunks)
                     /\ Len(meta[1].rag_similarity_scores) = Len(chunks)
                     /\ \A i \in 1..Len(chunks) :
                           \E j \in 1..Len(chunks) :
                              /\ chunks[j].rank = i
                              /\ meta[1].rag_similarity_scores[i] =
                                     chunks[j].similarity_score
                ELSE meta = <<>>

\* A grounded turn whose retrieval returned two chunks has succeeded.
C16_Witness ==
    \E r \in Requests :
        /\ response[r].status = 201
        /\ Len(req[r].retrieved_context) = 2
        /\ Row(<<r, "assistant">>).extra_data # <<>>

(* C17: a successful turn returns the two messages it persisted and the    *)
(* conversation as committed, and the list of retrieved chunks (possibly   *)
(* empty) when the conversation's mode is grounded; for an open_chat       *)
(* conversation the returned retrieved_context is None.                    *)
C17_TurnResult ==
    [][\A r \in Requests :
          (response[r].status # 201 /\ response'[r].status = 201)
          => LET q == req'[r]
                 c == q.conversation_id
             IN  /\ Len(q.returned) = 1
                 /\ q.returned[1].user_message.id = <<r, "user">>
                 /\ q.returned[1].assistant_message.id = <<r, "assistant">>
                 /\ q.returned[1].user_message \in messages'
                 /\ q.returned[1].assistant_message \in messages'
                 /\ q.returned[1].conversation = conversations'[c]
                 /\ q.returned[1].retrieved_context =
                        IF conversations'[c].mode = "grounded"
                        THEN <<q.retrieved_context>> ELSE <<>>]_vars

\* A grounded turn has returned an empty list of chunks.
C17_Witness ==
    \E r \in Requests :
        /\ response[r].status = 201
        /\ req[r].mode = "grounded"
        /\ req[r].returned[1].retrieved_context = << <<>> >>

(* C15: when the new user message alone has more tokens than the budget,   *)
(* the context window is empty and that is no error: the model is called   *)
(* once with the system instruction (and the grounding text, if any) and   *)
(* no history, and when it replies both messages are persisted.            *)
C15_OversizedMessageGivesEmptyContext ==
    \A r \in Requests :
        LET q == req[r] IN
        (q.user_message # <<>> /\ q.user_tokens > cfgMaxContextTokens)
        => /\ q.llm_in = <<>> => (retrCalls[r] = 1 /\ response[r].status = 500)
           /\ q.llm_in # <<>> =>
                 /\ q.llm_in[1].context_messages = <<>>
                 /\ q.llm_in[1].rag_context = format_rag_context(q.retrieved_context)
                 /\ q.llm_in[1].system_prompt \in {"default", "documents_only"}
                 /\ llmCalls[r] = 1
                 /\ pc[r] = "llm" => response[r].status = 0
                 /\ response[r].status = 201 =>
                       /\ <<r, "user">> \in CommittedIds
                       /\ <<r, "assistant">> \in CommittedIds

\* A grounded turn whose user message exceeds the budget has succeeded, its
\* model call made with grounding text and no history.
C15_Witness ==
    \E r \in Requests :
        /\ response[r].status = 201
        /\ req[r].user_tokens > cfgMaxContextTokens
        /\ req[r].llm_in[1].context_messages = <<>>
        /\ req[r].llm_in[1].rag_context # <<>>
        /\ <<r, "assistant">> \in CommittedIds

(* C20: generate_response reports input_tokens as the sum of the stored     *)
(* token counts of exactly the messages the context window kept (system    *)
(* instruction and grounding text not counted), output_tokens as the token *)
(* estimate of the returned text, and total_tokens as their sum.           *)
C20_ReportedTokens ==
    \A r \in Requests :
        req[r].llm_response # <<>> =>
            LET q == req[r]
                resp == q.llm_response[1]
                survivors == get_context_window(q.messages \o q.user_message,
                                                cfgMaxContextTokens)
            IN  /\ q.llm_in[1].context_messages = survivors
                /\ resp.input_tokens = SumTokens(survivors)
                /\ resp.output_tokens = resp.content \div 4
                /\ resp.total_tokens = resp.input_tokens + resp.output_tokens

\* A reply to a grounded turn whose context window dropped some messages
\* and kept some tokens.
C20_Witness ==
    \E r \in Requests :
        /\ req[r].llm_response # <<>>
        /\ req[r].llm_in[1].rag_context # <<>>
        /\ Len(req[r].llm_in[1].context_messages) < Len(req[r].messages) + 1
        /\ req[r].llm_response[1].input_tokens > 0
        /\ req[r].llm_response[1].output_tokens > 0

(* C13: whatever create_user requests are served, no two users share a    *)
(* username or an email; a request whose username or email is that of a    *)
(* user on record is answered 400 and leaves the users unchanged.          *)
C13_UsersAreUnique ==
    [][/\ \A a, b \in users' :
             a # b => (a.username # b.username /\ a.email # b.email)
       /\ \A u \in UserRequests :
             (userReq[u].pc = "idle" /\ userReq'[u].pc # "idle"
                /\ \E x \in users : \/ x.username = userReq'[u].username
                                    \/ x.email = userReq'[u].email)
             => /\ userReq'[u].status = 400
                /\ userReq'[u].pc = "done"
                /\ users' = users]_vars

\* A request that shared only its username with the user on record was
\* answered 400.
C13_Witness ==
    /\ Cardinality(users) = 1
    /\ \E u \in UserRequests :
          /\ userReq[u].status = 400
          /\ \A x \in users : x.email # userReq[u].email

(* C14: after a delete_conversation has succeeded, every later get of the  *)
(* conversation is answered not found and none of its messages is in the   *)
(* store; a delete of a conversation that is not on record is answered not *)
(* found and changes nothing.                                              *)
C14_DeletedConversationIsGone ==
    [][/\ \A c \in deletedConvs' :
             /\ c \notin DOMAIN conversations'
             /\ MessagesOf(messages', c) = {}
       /\ (getReq'.n = getReq.n + 1 /\ getReq'.conversation_id \in deletedConvs)
             => getReq'.status = 404
       /\ (delReq'.n = delReq.n + 1
              /\ delReq'.conversation_id \notin DOMAIN conversations)
             => /\ delReq'.status = 404
                /\ conversations' = conversations
                /\ messages' = messages]_vars

(* C18: when the extraction of an upload's text succeeds but the splitter  *)
(* makes no chunk of it, the ingestion fails as it does on an extraction   *)
(* failure: the response is a server error, nothing is written to the      *)
(* index and no document row is committed.                                 *)
C18_NoChunksFailsIngestion ==
    [][(docReq'.n = docReq.n + 1 /\ docReq'.op = "upload" /\ docReq'.pdf # <<>>
           /\ extract_text_from_pdf(docReq'.pdf[1]).ok /\ docReq'.split = 0)
       => /\ docReq'.status = 500
          /\ index' = index
          /\ documents' = documents
          /\ \A x \in documents' : x.id # docReq'.document_id]_vars

\* An upload whose text was extracted and split into no chunk has failed,
\* with another document's chunks in the index.
C18_Witness ==
    /\ docReq.op = "upload"
    /\ docReq.pdf # <<>>
    /\ extract_text_from_pdf(docReq.pdf[1]).ok
    /\ docReq.split = 0
    /\ docReq.status = 500
    /\ index # {}

(* C19: a successful ingestion of a document that splits into n chunks     *)
(* adds exactly n entries to the index, with the ids                       *)
(* {document_id}_chunk_0 .. {document_id}_chunk_{n-1}, each carrying the   *)
(* document's id and its chunk index, and records n as the chunk count;    *)
(* after any uploads and deletions the ids in the index are pairwise       *)
(* distinct.                                                               *)
C19_ChunkIdentifiers ==
    [][/\ \A c1, c2 \in index' : c1.id = c2.id => c1 = c2
       /\ (docReq'.n = docReq.n + 1 /\ docReq'.op = "upload"
              /\ docReq'.status = 201)
          => LET d == docReq'.document_id
                 n == docReq'.split
             IN  /\ n >= 1
                 /\ index \subseteq index'
                 /\ index' \ index =
                       {[id |-> <<d, i>>, document_id |-> d, chunk_index |-> i] :
                           i \in 0..(n - 1)}
                 /\ Cardinality(index' \ index) = n
                 /\ \E x \in documents' : x.id = d /\ x.chunk_count = n]_vars

\* A second document has been ingested, in two chunks.
C19_Witness ==
    /\ docReq.op = "upload"
    /\ docReq.status = 201
    /\ docReq.split = 2
    /\ \E c \in index : c.document_id # docReq.document_id

\* The ids of the rows of table messages that request r's session sees
\* written: the committed ones and those of its own open transaction.
WrittenIds(committed, pend) == {m.id : m \in committed \cup pend}

(* C21: a turn goes through its steps in one order.  Retrieval runs only   *)
(* after the user message is written and before the model is called; the   *)
(* model is called only with the user message written, retrieval done or   *)
(* skipped, and no assistant message yet, and it is given the history the  *)
(* turn read followed by the new user message; the assistant message is    *)
(* written only after the model has returned; a turn succeeds only with    *)
(* both messages committed and the conversation's row updated.             *)
C21_StepsInOrder ==
    [][\A r \in Requests :
          LET q == req'[r] IN
          /\ retrCalls'[r] > retrCalls[r]
                => /\ llmCalls[r] = 0
                   /\ q.user_message # <<>>
                   /\ <<r, "user">> \notin WrittenIds(messages, pending[r])
          /\ llmCalls'[r] > llmCalls[r]
                => /\ q.user_message # <<>>
                   /\ q.user_message[1] \in pending'[r]
                   /\ q.user_message[1].role = "user"
                   /\ retrCalls'[r] =
                         (IF uses_retrieval(q.mode, q.document_ids) THEN 1 ELSE 0)
                   /\ q.all_messages = q.messages \o q.user_message
                   /\ q.llm_in[1].context_messages =
                         get_context_window(q.all_messages, cfgMaxContextTokens)
                   /\ q.llm_response = <<>>
                   /\ <<r, "assistant">> \notin WrittenIds(messages', pending'[r])
          /\ (/\ <<r, "assistant">> \notin WrittenIds(messages, pending[r])
              /\ <<r, "assistant">> \in WrittenIds(messages', pending'[r]))
                => /\ llmCalls[r] = 1
                   /\ q.llm_response # <<>>
                   /\ <<r, "user">> \in WrittenIds({}, pending[r])
          /\ (response[r].status # 201 /\ response'[r].status = 201)
                => /\ llmCalls'[r] = 1
                   /\ <<r, "user">> \in WrittenIds(messages', {})
                   /\ <<r, "assistant">> \in WrittenIds(messages', {})
                   /\ conversations'[q.conversation_id].updated_at
                         = q.user_message[1].created_at
                   /\ conversations'[q.conversation_id] # conversations[q.conversation_id]
      ]_vars

\* A turn with retrieval on a conversation that held a turn has succeeded.
C21_Witness ==
    \E r \in Requests :
        /\ response[r].status = 201
        /\ retrCalls[r] = 1
        /\ req[r].retrieved_context # <<>>
        /\ Len(req[r].messages) = 2
        /\ Len(req[r].all_messages) = 3

\* The chunks of the index within the scope of the call: those of the
\* documents asked for.
InScope == {c \in index : c.document_id \in rqDocs}

(* C22: every chunk that retrieve_relevant_chunks returns for a non-empty  *)
(* document set belongs to a document of that set; when the index holds no *)
(* chunk of those documents, or none of them reaches the similarity        *)
(* threshold, the call returns the empty list (it has a result, and the    *)
(* result is empty).                                                       *)
C22_ResultsWithinScope ==
    /\ (retPc = "done" /\ rqDocs # {})
          => /\ \A i \in 1..Len(retOut) : retOut[i].chunk \in InScope
             /\ (\A c \in InScope : 10 - rqDist[c] < similarity_threshold)
                   => retOut = <<>>
    /\ (retPc = "ready" /\ rqDocs # {}
           /\ \A c \in InScope : 10 - rqDist[c] < similarity_threshold)
          => retrieve_relevant_chunks(index, rqDist, rqDocs, rqTopK) = {<<>>}

\* A call has returned chunks while a chunk of a document outside the set
\* was nearer to the query than any of them.
C22_Witness ==
    /\ retPc = "done"
    /\ rqDocs # {}
    /\ retOut # <<>>
    /\ \E c \in index \ InScope :
          \A i \in 1..Len(retOut) : rqDist[c] < rqDist[retOut[i].chunk]

\* Request r's retrieval ran and returned no chunk: the handler went on to
\* the model call with retrieved_context empty.
RetrievedNothing(r) ==
    /\ retrCalls[r] = 1
    /\ req[r].llm_in # <<>>
    /\ req[r].retrieved_context = <<>>

(* C23: a grounded turn whose retrieval returns no chunk goes on: the      *)
(* model is called with no grounding text and the default system prompt,   *)
(* and when the turn is answered 201 both its messages are persisted, the  *)
(* assistant message without retrieval metadata.  In every turn the        *)
(* documents-only prompt is used exactly when the grounding text is not    *)
(* empty, which is exactly when retrieval returned some chunk.             *)
C23_EmptyRetrievalIsNoFailure ==
    \A r \in Requests :
        LET q == req[r] IN
        /\ q.llm_in # <<>>
              => /\ (q.llm_in[1].system_prompt = "documents_only")
                        <=> (q.llm_in[1].rag_context # <<>>)
                 /\ (q.llm_in[1].rag_context # <<>>) <=> (q.retrieved_context # <<>>)
                 /\ q.llm_in[1].system_prompt \in {"documents_only", "default"}
        /\ RetrievedNothing(r)
              => /\ llmCalls[r] = 1
                 /\ q.llm_in[1].rag_context = <<>>
                 /\ q.llm_in[1].system_prompt = "default"
                 /\ q.llm_in[1].context_messages # <<>>
                 /\ response[r].status = 201
                       => /\ <<r, "user">> \in CommittedIds
                          /\ <<r, "assistant">> \in CommittedIds
                          /\ Row(<<r, "assistant">>).extra_data = <<>>
                 /\ (pc[r] = "done" /\ response[r].status # 201)
                       => q.llm_result \in {"error", "ok"}

\* A grounded turn whose retrieval returned no chunk has been answered 201.
C23_Witness ==
    \E r \in Requests :
        /\ RetrievedNothing(r)
        /\ req[r].mode = "grounded"
        /\ req[r].document_ids # {}
        /\ response[r].status = 201
        /\ <<r, "assistant">> \in CommittedIds

\* The sum of the tokens fields of a set of message rows.
RECURSIVE TokensOf(_)
TokensOf(rows) ==
    IF rows = {} THEN 0
    ELSE LET m == CHOOSE x \in rows : TRUE IN m.tokens + TokensOf(rows \ {m})

TurnsServed(c) ==
    {r \in Requests : response[r].status = 201 /\ req[r].conversation_id = c}

(* C25: with the turns on a conversation served one at a time, some        *)
(* failing, the conversation's persisted messages number exactly           *)
(* 0..2k-1 for its k successful turns: two rows per successful turn, none  *)
(* of a failed one, no number missing or repeated, the even numbers on     *)
(* user messages, the odd ones on assistant messages, each user message    *)
(* followed at the next number by the assistant message of the same turn.  *)
C25_SequentialNumbering ==
    \A c \in DOMAIN conversations :
        LET rows == MessagesOf(messages, c)
            k == Cardinality(TurnsServed(c))
        IN  /\ Cardinality(rows) = 2 * k
            /\ {m.sequence_number : m \in rows} = 0..(2 * k - 1)
            /\ \A m \in rows :
                  /\ m.role = "user" <=> m.sequence_number % 2 = 0
                  /\ m.role = "assistant" <=> m.sequence_number % 2 = 1
                  /\ m.id[1] \in TurnsServed(c)
                  /\ m.role = "user"
                        => \E a \in rows :
                              /\ a.id = <<m.id[1], "assistant">>
                              /\ a.sequence_number = m.sequence_number + 1

\* A turn has failed after its user message was flushed, and the next turn
\* on the conversation has succeeded.
C25_Witness ==
    \E r, x \in Requests :
        /\ r < x
        /\ FailedAfterFlush(r)
        /\ req[x].conversation_id = req[r].conversation_id
        /\ response[x].status = 201
        /\ Row(<<x, "assistant">>).sequence_number = 1

(* C26: POST /conversations with a first_message commits the conversation  *)
(* before the first turn runs: while the turn awaits the model the         *)
(* conversation is on record, and when the turn fails (in retrieval, in    *)
(* the model call or at its commit) the request is answered 500, the       *)
(* conversation stays on record with no message and total_tokens 0, and    *)
(* nothing of the turn is left in the session.                             *)
C26_FirstTurnFailureKeepsConversation ==
    [][\A r \in Requests :
          LET c == req'[r].conversation_id IN
          /\ (req'[r].first_message /\ pc'[r] = "llm")
                => /\ c \in DOMAIN conversations'
                   /\ conversations'[c].total_tokens = 0
          /\ (req'[r].first_message /\ pc[r] # "done" /\ pc'[r] = "done"
                 /\ response'[r].status # 201)
                => /\ response'[r].status = 500
                   /\ c \in DOMAIN conversations'
                   /\ MessagesOf(messages', c) = {}
                   /\ conversations'[c].total_tokens = 0
                   /\ pending'[r] = {}]_vars

\* The first turn of a conversation created with a first message has failed
\* in the model call, and the conversation is on record without messages.
C26_Witness ==
    \E r \in Requests :
        /\ req[r].first_message
        /\ req[r].llm_result = "error"
        /\ response[r].status = 500
        /\ req[r].conversation_id \in DOMAIN conversations
        /\ MessagesOf(messages, req[r].conversation_id) = {}

\* The ids of the documents on record.
DocumentsOnRecord == {x.id : x \in documents}

(* C27: deleting a document leaves the conversations as they are, so a     *)
(* grounded conversation keeps the deleted document's id; a turn on it     *)
(* after the deletion calls retrieval with the ids the conversation lists, *)
(* the deleted one included, and retrieval returns no chunk of a document  *)
(* that is no longer on record.                                            *)
C27_DeletedDocumentGivesNoChunk ==
    [][/\ docReq' # docReq => conversations' = conversations
       /\ \A r \in Requests :
             retrCalls'[r] > retrCalls[r]
                => LET q == req'[r] IN
                   /\ q.document_ids = conversations[q.conversation_id].document_ids
                   /\ \A i \in 1..Len(q.retrieved_context) :
                         q.retrieved_context[i].chunk.document_id
                             \in DocumentsOnRecord]_vars

(* C28: after any uploads and deletions of documents, the file_path of     *)
(* every document on record names a stored file, and no two documents on   *)
(* record have the same file_path (so that removing the file of one        *)
(* document, on its deletion or on a failed upload, never takes the file   *)
(* of another).                                                            *)
C28_EveryDocumentHasItsOwnFile ==
    \A x \in documents :
        /\ x.file_path \in DOMAIN files
        /\ \A y \in documents : y.file_path = x.file_path => y = x

====
